---------------------------- MODULE Spec2Model ----------------------------
(***************************************************************************)
(* The execution driver of the scripting language (src/runner.py): command *)
(* line parsing, the watch context, file mode and REPL mode of main().     *)
(*                                                                         *)
(* Text that the driver inspects (command-line arguments, script text,     *)
(* REPL input lines) is a sequence of one-character strings, so that       *)
(* startswith, split and strip are computed character by character.  Text  *)
(* that the driver only prints is a TLA+ string built with \o.             *)
(*                                                                         *)
(* tokenize, parse and evaluate are imported by runner.py from modules     *)
(* that are not part of src/; they are modelled from the collaborator      *)
(* contract of spec.md section 6 on a small statement language.            *)
(***************************************************************************)
EXTENDS Integers, Sequences, FiniteSets

(***************************************************************************)
(* Bounds of the model.                                                    *)
(***************************************************************************)
\* number of terminal events (lines, interrupts) a REPL session is given
MaxLines == 3
\* number of calls made of the wrapped evaluator and of record_change when
\* they are checked on their own
MaxCalls == 2
\* number of command-line arguments when argument parsing is checked on its own
MaxArgs == 3
\* number of elements of a sequence or mapping value given to the formatter
MaxElems == 2
\* number of times the REPL loop is followed around after end of input
MaxEofReads == 2

(***************************************************************************)
(* Text helpers.                                                           *)
(***************************************************************************)
\* Python's None, for variables that hold a character sequence otherwise
None == <<"None">>

RECURSIVE Text(_)
\* the printed form of a character sequence (interpolation into an f-string)
Text(s) == IF s = <<>> THEN "" ELSE Head(s) \o Text(Tail(s))

\* str.startswith
StartsWith(s, p) == Len(s) >= Len(p) /\ SubSeq(s, 1, Len(p)) = p

RECURSIVE LStrip(_)
LStrip(s) == IF s # <<>> /\ Head(s) \in {" ", "\t", "\n"} THEN LStrip(Tail(s)) ELSE s

RECURSIVE RStrip(_)
RStrip(s) == IF s # <<>> /\ s[Len(s)] \in {" ", "\t", "\n"}
             THEN RStrip(SubSeq(s, 1, Len(s) - 1)) ELSE s

\* Strip that strips nothing
Strip_None(s) == s

\* str.strip
Strip(s) == RStrip(LStrip(s))

\* bool(s) of an optional string: None and "" are falsy
Truthy(s) == s # None /\ s # <<>>

DigitChars == <<"0", "1", "2", "3", "4", "5", "6", "7", "8", "9">>

RECURSIVE NatStr(_)
NatStr(n) == IF n < 10 THEN DigitChars[n + 1]
             ELSE NatStr(n \div 10) \o DigitChars[(n % 10) + 1]

\* str(i) of an integer
IntStr(i) == IF i < 0 THEN "-" \o NatStr(-i) ELSE NatStr(i)

(***************************************************************************)
(* The dynamic values of the language.  Each kind has its own field name,  *)
(* so that values of two kinds are never compared field by field.          *)
(***************************************************************************)
VNull == [t |-> "null"]
VBool(b) == [t |-> "bool", b |-> b]
VInt(i) == [t |-> "int", i |-> i]
VStr(s) == [t |-> "str", s |-> s]
VList(elems) == [t |-> "list", elems |-> elems]
\* a mapping is its sequence of <<key, value>> pairs in insertion order
VDict(pairs) == [t |-> "dict", pairs |-> pairs]

(***************************************************************************)
(* tokenize (spec.md section 6): text to tokens, or a LexError.            *)
(* A stage's outcome is [ok |-> TRUE, ...] or [ok |-> FALSE, msg |-> e].   *)
(***************************************************************************)
Letters == {"a", "b", "c", "d", "e", "f", "g", "h", "i", "j", "k", "l", "m",
            "n", "o", "p", "q", "r", "s", "t", "u", "v", "w", "x", "y", "z"}
Digits == {DigitChars[i] : i \in 1..10}
Symbols == {"=", ";", "[", "]", "{", "}"}
Keywords == {<<"e", "x", "i", "t">>, <<"p", "r", "i", "n", "t">>,
             <<"t", "r", "u", "e">>, <<"f", "a", "l", "s", "e">>,
             <<"n", "u", "l", "l">>}

\* the length of the longest prefix of s made of characters of set cs
RunLen(s, cs) ==
  IF \E n \in 1..Len(s) : s[n] \notin cs
  THEN (CHOOSE n \in 1..Len(s) : s[n] \notin cs /\ \A m \in 1..(n - 1) : s[m] \in cs) - 1
  ELSE Len(s)

DigitVal(c) == CHOOSE d \in 0..9 : DigitChars[d + 1] = c

RECURSIVE NumVal(_)
NumVal(ds) == IF Len(ds) = 1 THEN DigitVal(ds[1])
              ELSE 10 * NumVal(SubSeq(ds, 1, Len(ds) - 1)) + DigitVal(ds[Len(ds)])

Fail(m) == [ok |-> FALSE, msg |-> m]

RECURSIVE tokenize(_)
tokenize(s) ==
  IF s = <<>> THEN [ok |-> TRUE, tokens |-> <<>>]
  ELSE LET c == Head(s)
           Cons(tok, n) ==
             LET rest == tokenize(SubSeq(s, n + 1, Len(s)))
             IN  IF rest.ok THEN [ok |-> TRUE, tokens |-> <<tok>> \o rest.tokens]
                 ELSE rest
       IN  IF c \in {" ", "\t", "\n"} THEN tokenize(Tail(s))
           ELSE IF c \in Letters THEN
             LET n == RunLen(s, Letters)
                 w == SubSeq(s, 1, n)
             IN  IF w \in Keywords THEN Cons([tag |-> Text(w)], n)
                 ELSE Cons([tag |-> "identifier", value |-> w], n)
           ELSE IF c \in Digits THEN
             LET n == RunLen(s, Digits)
             IN  Cons([tag |-> "number", num |-> NumVal(SubSeq(s, 1, n))], n)
           ELSE IF c = "\"" THEN
             LET n == RunLen(Tail(s), Letters \cup Digits \cup {" "})
             IN  IF n < Len(s) - 1 /\ s[n + 2] = "\""
                 THEN Cons([tag |-> "string", value |-> SubSeq(s, 2, n + 1)], n + 2)
                 ELSE Fail("unterminated string")
           ELSE IF c \in Symbols THEN Cons([tag |-> c], 1)
           ELSE Fail("unexpected character '" \o c \o "'")

(***************************************************************************)
(* parse (spec.md section 6): tokens to a syntax tree, or a ParseError.    *)
(* A program is statements separated by ';'.  A statement is an            *)
(* assignment  name = atom, exit [atom], print atom, or an atom.           *)
(***************************************************************************)
AtomTags == {"number", "string", "identifier", "true", "false", "null"}

\* the node of an atom, or [tag |-> "error"]
ParseAtom(ts) ==
  IF Len(ts) = 1 /\ ts[1].tag \in AtomTags THEN ts[1]
  ELSE IF Len(ts) = 2 /\ ts[1].tag = "[" /\ ts[2].tag = "]" THEN [tag |-> "list"]
  ELSE IF Len(ts) = 2 /\ ts[1].tag = "{" /\ ts[2].tag = "}" THEN [tag |-> "object"]
  ELSE [tag |-> "error"]

ParseStatement(ts) ==
  IF Len(ts) >= 2 /\ ts[1].tag = "identifier" /\ ts[2].tag = "="
  THEN LET v == ParseAtom(SubSeq(ts, 3, Len(ts)))
       IN  IF v.tag = "error" THEN v
           ELSE [tag |-> "assign", target |-> ts[1], value |-> v]
  ELSE IF ts[1].tag = "exit"
  THEN IF Len(ts) = 1 THEN [tag |-> "exit", value |-> [tag |-> "null"]]
       ELSE LET v == ParseAtom(Tail(ts))
            IN  IF v.tag = "error" THEN v ELSE [tag |-> "exit", value |-> v]
  ELSE IF ts[1].tag = "print"
  THEN LET v == ParseAtom(Tail(ts))
       IN  IF v.tag = "error" THEN v ELSE [tag |-> "print", value |-> v]
  ELSE ParseAtom(ts)

RECURSIVE ParseStatements(_)
\* the statements of a token sequence, empty statements skipped
ParseStatements(ts) ==
  IF ts = <<>> THEN [ok |-> TRUE, statements |-> <<>>]
  ELSE LET n == IF \E k \in 1..Len(ts) : ts[k].tag = ";"
                THEN CHOOSE k \in 1..Len(ts) :
                       ts[k].tag = ";" /\ \A m \in 1..(k - 1) : ts[m].tag # ";"
                ELSE Len(ts) + 1
           first == SubSeq(ts, 1, n - 1)
           rest == ParseStatements(SubSeq(ts, n + 1, Len(ts)))
       IN  IF first = <<>> THEN rest
           ELSE LET node == ParseStatement(first)
                IN  IF node.tag = "error" THEN Fail("syntax error")
                    ELSE IF rest.ok
                    THEN [ok |-> TRUE, statements |-> <<node>> \o rest.statements]
                    ELSE rest

parse(tokens) ==
  LET r == ParseStatements(tokens)
  IN  IF r.ok THEN [ok |-> TRUE, ast |-> [tag |-> "program", statements |-> r.statements]]
      ELSE r

(***************************************************************************)
(* The host's rendering of a value: str(v) and repr(v) of Python.          *)
(***************************************************************************)
RECURSIVE PyRepr(_)
RECURSIVE PyReprElems(_)
RECURSIVE PyReprPairs(_)
PyRepr(v) ==
  CASE v.t = "null" -> "None"
    [] v.t = "bool" -> IF v.b THEN "True" ELSE "False"
    [] v.t = "int" -> IntStr(v.i)
    [] v.t = "str" -> "'" \o Text(v.s) \o "'"
    [] v.t = "list" -> "[" \o PyReprElems(v.elems) \o "]"
    [] v.t = "dict" -> "{" \o PyReprPairs(v.pairs) \o "}"

PyReprElems(vs) ==
  IF vs = <<>> THEN ""
  ELSE IF Len(vs) = 1 THEN PyRepr(vs[1])
  ELSE PyRepr(vs[1]) \o ", " \o PyReprElems(Tail(vs))

PyReprPairs(ps) ==
  IF ps = <<>> THEN ""
  ELSE LET one == "'" \o Text(ps[1][1]) \o "': " \o PyRepr(ps[1][2])
       IN  IF Len(ps) = 1 THEN one ELSE one \o ", " \o PyReprPairs(Tail(ps))

\* what print(v) writes
PyStr(v) == IF v.t = "str" THEN Text(v.s) ELSE PyRepr(v)

(***************************************************************************)
(* evaluate (spec.md section 6): runs a node against the environment; the  *)
(* outcome carries the final value, the signal ("exit" or "normal"), the   *)
(* environment as the call leaves it (it is mutated in place, so a failed  *)
(* call keeps the assignments made before the failure) and the lines the   *)
(* script printed.                                                         *)
(***************************************************************************)
\* environment[name] = value
Bind(env, name, value) ==
  [n \in DOMAIN env \cup {name} |-> IF n = name THEN value ELSE env[n]]

EmptyEnv == [n \in {} |-> VNull]

EvalAtom(node, env) ==
  CASE node.tag = "number" -> [ok |-> TRUE, value |-> VInt(node.num)]
    [] node.tag = "string" -> [ok |-> TRUE, value |-> VStr(node.value)]
    [] node.tag = "true" -> [ok |-> TRUE, value |-> VBool(TRUE)]
    [] node.tag = "false" -> [ok |-> TRUE, value |-> VBool(FALSE)]
    [] node.tag = "null" -> [ok |-> TRUE, value |-> VNull]
    [] node.tag = "list" -> [ok |-> TRUE, value |-> VList(<<>>)]
    [] node.tag = "object" -> [ok |-> TRUE, value |-> VDict(<<>>)]
    [] node.tag = "identifier" ->
         IF node.value \in DOMAIN env THEN [ok |-> TRUE, value |-> env[node.value]]
         ELSE Fail("undefined variable '" \o Text(node.value) \o "'")

\* d[key] = value on the items of a mapping d
SetItem(pairs, key, value) ==
  IF \E i \in 1..Len(pairs) : pairs[i][1] = key
  THEN [i \in 1..Len(pairs) |-> IF pairs[i][1] = key THEN <<key, value>> ELSE pairs[i]]
  ELSE Append(pairs, <<key, value>>)

\* An assignment's target is an identifier node, or an index node
\* [tag |-> "index", value |-> name, key |-> k] for  name[k] = ...
EvalStatement(node, env) ==
  LET a == EvalAtom(IF node.tag \in {"assign", "exit", "print"} THEN node.value ELSE node,
                    env)
      Done(value, status, e, out) ==
        [ok |-> TRUE, value |-> value, status |-> status, env |-> e, out |-> out]
  IN  IF ~a.ok THEN [ok |-> FALSE, msg |-> a.msg, env |-> env, out |-> <<>>]
      ELSE CASE node.tag = "assign" ->
                  LET name == node.target.value
                  IN  IF node.target.tag = "identifier"
                      THEN Done(a.value, "normal", Bind(env, name, a.value), <<>>)
                      ELSE IF name \in DOMAIN env /\ env[name].t = "dict"
                      THEN Done(a.value, "normal",
                                Bind(env, name,
                                     VDict(SetItem(env[name].pairs, node.target.key,
                                                   a.value))),
                                <<>>)
                      ELSE [ok |-> FALSE,
                            msg |-> "'" \o Text(name) \o "' is not a mapping",
                            env |-> env, out |-> <<>>]
             [] node.tag = "exit" -> Done(a.value, "exit", env, <<>>)
             [] node.tag = "print" -> Done(VNull, "normal", env, <<PyStr(a.value)>>)
             [] OTHER -> Done(a.value, "normal", env, <<>>)

RECURSIVE EvalStatements(_, _)
EvalStatements(stmts, env) ==
  IF stmts = <<>>
  THEN [ok |-> TRUE, value |-> VNull, status |-> "normal", env |-> env, out |-> <<>>]
  ELSE LET r == EvalStatement(stmts[1], env)
       IN  IF ~r.ok \/ r.status = "exit" \/ Len(stmts) = 1 THEN r
           ELSE LET rest == EvalStatements(Tail(stmts), r.env)
                IN  [rest EXCEPT !.out = r.out \o rest.out]

evaluate(ast, environment) ==
  IF ast.tag = "program" THEN EvalStatements(ast.statements, environment)
  ELSE EvalStatement(ast, environment)

(***************************************************************************)
(* WatchContext (runner.py lines 8-46).                                    *)
(***************************************************************************)
\* WatchContext with a frame on its call stack
WatchContext_InFunction(wv) ==
  [watch_var |-> wv, watch_enabled |-> (wv # None), stack_trace |-> <<<<"f">>>>]

\* WatchContext.__init__
WatchContext(wv) ==
  [watch_var |-> wv, watch_enabled |-> (wv # None), stack_trace |-> <<>>]

RECURSIVE FormatValue(_)
RECURSIVE FormatElems(_)
RECURSIVE FormatItems(_)
\* FormatValue with the host's spelling of a boolean
FormatValue_HostBool(val) ==
  IF val.t = "str" THEN "\"" \o Text(val.s) \o "\""
  ELSE IF val.t = "bool" THEN (IF val.b THEN "True" ELSE "False")
  ELSE IF val.t = "list" THEN "[" \o FormatElems(val.elems) \o "]"
  ELSE IF val.t = "dict" THEN "{" \o FormatItems(val.pairs) \o "}"
  ELSE IF val.t = "null" THEN "null"
  ELSE IntStr(val.i)

\* WatchContext._format_value
FormatValue(val) ==
  IF val.t = "str" THEN "\"" \o Text(val.s) \o "\""
  ELSE IF val.t = "bool" THEN (IF val.b THEN "true" ELSE "false")
  ELSE IF val.t = "list" THEN "[" \o FormatElems(val.elems) \o "]"
  ELSE IF val.t = "dict" THEN "{" \o FormatItems(val.pairs) \o "}"
  ELSE IF val.t = "null" THEN "null"
  ELSE IntStr(val.i)

\* ', '.join(self._format_value(v) for v in val)
FormatElems(vs) ==
  IF vs = <<>> THEN ""
  ELSE IF Len(vs) = 1 THEN FormatValue(vs[1])
  ELSE FormatValue(vs[1]) \o ", " \o FormatElems(Tail(vs))

\* ', '.join(f'"{k}": {self._format_value(v)}' for k, v in val.items())
FormatItems(ps) ==
  IF ps = <<>> THEN ""
  ELSE LET one == "\"" \o Text(ps[1][1]) \o "\": " \o FormatValue(ps[1][2])
       IN  IF Len(ps) = 1 THEN one ELSE one \o ", " \o FormatItems(Tail(ps))

\* WatchContext._get_location
GetLocation(ctx) ==
  IF ctx.stack_trace # <<>>
  THEN "in function '" \o Text(ctx.stack_trace[Len(ctx.stack_trace)]) \o "'"
  ELSE "at module level"

\* one print call: the code that made it and the text it was given
Emit(by, text) == [by |-> by, text |-> text]

\* RecordChange without the comparison of var_name with the watch target
RecordChange_AnyName(ctx, var_name, new_value) ==
  IF ctx.watch_enabled
  THEN <<Emit("watch", "\n[WATCH: " \o Text(ctx.watch_var) \o "] New value: "
                          \o FormatValue(new_value)),
         Emit("watch", "         Location: " \o GetLocation(ctx))>>
  ELSE <<>>

\* WatchContext.record_change: the print calls it makes
RecordChange(ctx, var_name, new_value) ==
  IF ctx.watch_enabled /\ var_name = ctx.watch_var
  THEN <<Emit("watch", "\n[WATCH: " \o Text(ctx.watch_var) \o "] New value: "
                          \o FormatValue(new_value)),
         Emit("watch", "         Location: " \o GetLocation(ctx))>>
       \o (IF ctx.stack_trace # <<>>
           THEN <<Emit("watch", "         Call stack depth: "
                                   \o IntStr(Len(ctx.stack_trace)))>>
           ELSE <<>>)
  ELSE <<>>

(***************************************************************************)
(* wrap_evaluate_for_watch (runner.py lines 77-97): the evaluator wrapped  *)
(* for watch_ctx.  Its outcome is the original evaluator's, with the print *)
(* calls of the report after those of the script.                          *)
(***************************************************************************)
\* the outcome's script lines as print calls
ScriptPrints(r) == [i \in 1..Len(r.out) |-> Emit("script", r.out[i])]

\* the evaluators given to wrap_evaluate_for_watch: the imported evaluate,
\* and one that accepts every node and binds nothing
Originals == {"evaluate", "binds_nothing"}

\* original_evaluate(ast, environment) of the wrapper made for original
original_evaluate(original, ast, environment) ==
  IF original = "evaluate" THEN evaluate(ast, environment)
  ELSE [ok |-> TRUE, value |-> VNull, status |-> "normal", env |-> environment,
        out |-> <<>>]

\* WrappedEvaluate reporting before it delegates
WrappedEvaluate_ReportFirst(original, watch_ctx, ast, environment) ==
  LET r == original_evaluate(original, ast, environment)
  IN  IF /\ ast.tag = "assign"
         /\ watch_ctx.watch_enabled
         /\ ast.target.tag = "identifier"
         /\ ast.target.value \in DOMAIN environment
      THEN [ret |-> r,
            out |-> RecordChange(watch_ctx, ast.target.value,
                                 environment[ast.target.value])
                    \o ScriptPrints(r),
            calls |-> <<"record_change", "original_evaluate">>]
      ELSE [ret |-> r, out |-> ScriptPrints(r), calls |-> <<"original_evaluate">>]

\* WrappedEvaluate turning an error of a watched assignment into a null result
WrappedEvaluate_Swallow(original, watch_ctx, ast, environment) ==
  LET r == original_evaluate(original, ast, environment)
      watched == /\ ast.tag = "assign"
                 /\ watch_ctx.watch_enabled
                 /\ ast.target.tag = "identifier"
  IN  IF watched /\ ~r.ok
      THEN [ret |-> [ok |-> TRUE, value |-> VNull, status |-> "normal", env |-> r.env,
                     out |-> <<>>],
            out |-> <<>>, calls |-> <<"original_evaluate">>]
      ELSE IF watched /\ ast.target.value \in DOMAIN r.env
      THEN [ret |-> r,
            out |-> ScriptPrints(r)
                    \o RecordChange(watch_ctx, ast.target.value,
                                    r.env[ast.target.value]),
            calls |-> <<"original_evaluate", "record_change">>]
      ELSE [ret |-> r, out |-> ScriptPrints(r), calls |-> <<"original_evaluate">>]

\* WrappedEvaluate without the test of the target's tag (line 85)
WrappedEvaluate_AnyTarget(original, watch_ctx, ast, environment) ==
  LET r == original_evaluate(original, ast, environment)
  IN  IF /\ ast.tag = "assign"
         /\ watch_ctx.watch_enabled
         /\ r.ok
         /\ ast.target.value \in DOMAIN r.env
      THEN [ret |-> r,
            out |-> ScriptPrints(r)
                    \o RecordChange(watch_ctx, ast.target.value,
                                    r.env[ast.target.value]),
            calls |-> <<"original_evaluate", "record_change">>]
      ELSE [ret |-> r, out |-> ScriptPrints(r), calls |-> <<"original_evaluate">>]

\* wrapped_evaluate of wrap_evaluate_for_watch(original, watch_ctx): ret is
\* what original_evaluate returned or raised, out the print calls made and
\* calls the operations invoked, in order
WrappedEvaluate(original, watch_ctx, ast, environment) ==
  IF /\ ast.tag = "assign"
     /\ watch_ctx.watch_enabled
     /\ ast.target.tag = "identifier"
  THEN LET var_name == ast.target.value
           r == original_evaluate(original, ast, environment)
       IN  IF r.ok /\ var_name \in DOMAIN r.env
           THEN [ret |-> r,
                 out |-> ScriptPrints(r)
                         \o RecordChange(watch_ctx, var_name, r.env[var_name]),
                 calls |-> <<"original_evaluate", "record_change">>]
           ELSE [ret |-> r, out |-> ScriptPrints(r), calls |-> <<"original_evaluate">>]
  ELSE LET r == original_evaluate(original, ast, environment)
       IN  [ret |-> r, out |-> ScriptPrints(r), calls |-> <<"original_evaluate">>]

(***************************************************************************)
(* parse_command_line_args (runner.py lines 51-74).                        *)
(***************************************************************************)
WatchPrefix == <<"w", "a", "t", "c", "h", "=">>

\* arg.split("=", 1)[1]: what follows the first "=" of arg
AfterFirstEq(arg) ==
  LET k == CHOOSE i \in 1..Len(arg) : arg[i] = "=" /\ \A j \in 1..(i - 1) : arg[j] # "="
  IN  SubSeq(arg, k + 1, Len(arg))

RECURSIVE ParseArgsLoop_NoExit(_, _, _)
\* ParseArgsLoop without the check of lines 68-70
ParseArgsLoop_NoExit(args, filename, watch_var) ==
  IF args = <<>> THEN [exit |-> FALSE, filename |-> filename, watch_var |-> watch_var]
  ELSE LET arg == Head(args)
       IN  IF StartsWith(arg, WatchPrefix)
           THEN ParseArgsLoop_NoExit(Tail(args), filename, AfterFirstEq(arg))
           ELSE IF ~StartsWith(arg, <<"-">>)
           THEN ParseArgsLoop_NoExit(Tail(args), arg, watch_var)
           ELSE ParseArgsLoop_NoExit(Tail(args), filename, watch_var)

RECURSIVE ParseArgsLoop_FlagAsFile(_, _, _)
\* ParseArgsLoop without the test of line 71
ParseArgsLoop_FlagAsFile(args, filename, watch_var) ==
  IF args = <<>> THEN [exit |-> FALSE, filename |-> filename, watch_var |-> watch_var]
  ELSE LET arg == Head(args)
       IN  IF StartsWith(arg, WatchPrefix)
           THEN LET w == AfterFirstEq(arg)
                IN  IF w = <<>>
                    THEN [exit |-> TRUE, filename |-> filename, watch_var |-> w]
                    ELSE ParseArgsLoop_FlagAsFile(Tail(args), filename, w)
           ELSE ParseArgsLoop_FlagAsFile(Tail(args), arg, watch_var)

RECURSIVE ParseArgsLoop(_, _, _)
\* the for loop over sys.argv[1:]; exit is sys.exit(1) at line 70
ParseArgsLoop(args, filename, watch_var) ==
  IF args = <<>> THEN [exit |-> FALSE, filename |-> filename, watch_var |-> watch_var]
  ELSE LET arg == Head(args)
       IN  IF StartsWith(arg, WatchPrefix)
           THEN LET w == AfterFirstEq(arg)
                IN  IF w = <<>>
                    THEN [exit |-> TRUE, filename |-> filename, watch_var |-> w]
                    ELSE ParseArgsLoop(Tail(args), filename, w)
           ELSE IF ~StartsWith(arg, <<"-">>)
           THEN ParseArgsLoop(Tail(args), arg, watch_var)
           ELSE ParseArgsLoop(Tail(args), filename, watch_var)

parse_command_line_args(args) == ParseArgsLoop(args, None, None)

(***************************************************************************)
(* The inputs of a run: argument lists, script files, terminal lines.      *)
(***************************************************************************)
A_script == <<"s">>
A_watch_x == <<"w", "a", "t", "c", "h", "=", "x">>
A_watch_z == <<"w", "a", "t", "c", "h", "=", "z">>
A_watch_empty == <<"w", "a", "t", "c", "h", "=">>
A_flag == <<"-", "v">>
A_flag_watch == <<"-", "w", "a", "t", "c", "h", "=">>

\* sys.argv[1:]
ArgLists ==
  { <<>>, <<A_watch_x>>, <<A_flag>>, <<A_script>>,
    <<A_script, A_watch_x>>, <<A_watch_z, A_script>>, <<A_flag, A_script>>,
    <<A_flag_watch, A_script>>,
    <<A_watch_empty>>, <<A_script, A_watch_empty>>, <<A_watch_empty, A_script>>,
    <<A_flag, A_watch_empty>>, <<A_watch_x, A_watch_empty>>,
    <<A_script, A_watch_x, A_watch_empty>>, <<A_flag, A_watch_empty, A_script>> }

\* ''
L_empty == <<>>
\* '  '
L_spaces == <<" ", " ">>
\* 'exit'
L_exit == <<"e", "x", "i", "t">>
\* ' quit '
L_quit == <<" ", "q", "u", "i", "t", " ">>
\* 'x = 5'
S_five == <<"x", " ", "=", " ", "5">>
\* 'x=1;x=2;x=3'
S_three == <<"x", "=", "1", ";", "x", "=", "2", ";", "x", "=", "3">>
\* 'x'
S_ref == <<"x">>
\* 'x=1;?'
S_lexerr == <<"x", "=", "1", ";", "?">>
\* 'x='
S_parseerr == <<"x", "=">>
\* 'y=2;z'
S_partial == <<"y", "=", "2", ";", "z">>
\* 'print 7'
S_print == <<"p", "r", "i", "n", "t", " ", "7">>
\* 'null'
S_null == <<"n", "u", "l", "l">>
\* 'true'
S_true == <<"t", "r", "u", "e">>
\* 'x=4;exit 3'
S_exit_int == <<"x", "=", "4", ";", "e", "x", "i", "t", " ", "3">>
\* 'exit true'
S_exit_true == <<"e", "x", "i", "t", " ", "t", "r", "u", "e">>
\* 'exit false'
S_exit_false == <<"e", "x", "i", "t", " ", "f", "a", "l", "s", "e">>
\* 'exit "a"'
S_exit_str == <<"e", "x", "i", "t", " ", "\"", "a", "\"">>
\* 'exit []'
S_exit_list == <<"e", "x", "i", "t", " ", "[", "]">>
\* 'exit {}'
S_exit_dict == <<"e", "x", "i", "t", " ", "{", "}">>
\* 'exit null'
S_exit_null == <<"e", "x", "i", "t", " ", "n", "u", "l", "l">>

\* program texts
Sources == {S_five, S_three, S_ref, S_lexerr, S_parseerr, S_partial, S_print, S_null, S_true, S_exit_int, S_exit_true, S_exit_false, S_exit_str, S_exit_list, S_exit_dict, S_exit_null}

\* what a script file can hold
Scripts == Sources \cup {L_empty, L_exit}

\* '[]' and '"a"'
S_list == <<"[", "]">>
S_str == <<"\"", "a", "\"">>

\* what the user can type at the prompt
Lines == {L_empty, L_spaces, L_exit, L_quit,
          S_five, S_ref, S_lexerr, S_parseerr, S_partial, S_null, S_true,
          S_list, S_str, S_exit_int, S_exit_true, S_exit_dict}

\* the script file as the run finds it; not looked at yet: [known |-> FALSE]
Disks == {[known |-> TRUE, exists |-> FALSE]}
         \cup {[known |-> TRUE, exists |-> TRUE, content |-> c] : c \in Scripts}

\* what a read of the terminal delivers
Events == {[k |-> "line", text |-> l] : l \in Lines} \cup {[k |-> "eof"], [k |-> "int"]}

(***************************************************************************)
(* The state of a run of main() (runner.py lines 100-178).                 *)
(***************************************************************************)
VARIABLES
  argv,           \* sys.argv[1:]
  disk,           \* the script file, once the run has looked at it
  stdin,          \* the terminal events delivered so far
  pos,            \* how many of them this run has read
  pc,             \* where main() is
  filename,       \* main's locals
  watch_var,
  watch_context,
  environment,
  source_code,
  tokens,
  ast,
  final_value,
  exit_status,
  stdout,         \* the print calls made on standard output, in order
  stderr,         \* the print calls made on the error stream, in order
  exit_code,      \* the process's exit code, once pc = "done"
  calls,          \* the external operations invoked so far, in order
  run,            \* 1, or 2 when the program has been run again
  prev,           \* what the first run left, when run = 2
  call            \* the latest call made of wrapped_evaluate or record_change

vars == <<argv, disk, stdin, pos, pc, filename, watch_var, watch_context, environment,
          source_code, tokens, ast, final_value, exit_status, stdout, stderr,
          exit_code, calls, run, prev, call>>

world == <<argv, disk, run, prev, call>>
locals == <<filename, watch_var, watch_context>>
stage == <<source_code, tokens, ast, final_value, exit_status>>

\* no call of wrapped_evaluate or record_change yet
NoCall ==
  [n |-> 0, op |-> "none", original |-> "none", raised |-> "", var_name |-> None,
   new_value |-> VNull]

\* the state of a process that has just been started
Fresh ==
  /\ pos = 0
  /\ pc = "start"
  /\ filename = None
  /\ watch_var = None
  /\ watch_context = WatchContext(None)
  /\ environment = EmptyEnv
  /\ source_code = <<>>
  /\ tokens = <<>>
  /\ ast = [tag |-> "none"]
  /\ final_value = VNull
  /\ exit_status = "normal"
  /\ stdout = <<>>
  /\ stderr = <<>>
  /\ exit_code = 0
  /\ calls = <<>>

Init ==
  /\ argv \in ArgLists
  /\ disk = [known |-> FALSE]
  /\ stdin = <<>>
  /\ run = 1
  /\ prev = [run |-> 0]
  /\ call = NoCall
  /\ Fresh

\* if filename: (line 114)
FileMode == Truthy(filename)

\* line 103, parse_command_line_args with its sys.exit(1)
ParseArgs ==
  /\ pc = "start"
  /\ LET r == parse_command_line_args(argv)
     IN  IF r.exit
         THEN /\ stdout' = Append(stdout, Emit("config",
                 "Error: watch argument requires a variable name (watch=variable_name)"))
              /\ exit_code' = 1
              /\ pc' = "done"
              /\ UNCHANGED <<filename, watch_var>>
         ELSE /\ filename' = r.filename
              /\ watch_var' = r.watch_var
              /\ pc' = "init"
              /\ UNCHANGED <<stdout, exit_code>>
  /\ UNCHANGED <<world, stdin, pos, watch_context, environment, stage, stderr, calls>>

\* lines 108-110
WatchBanner(wv) ==
  IF Truthy(wv)
  THEN <<Emit("banner", "[DEBUG] Watching variable: '" \o Text(wv) \o "'"),
         Emit("banner", "")>>
  ELSE <<>>

\* lines 106-114
InitWatch ==
  /\ pc = "init"
  /\ watch_context' = WatchContext(watch_var)
  /\ stdout' = stdout \o WatchBanner(watch_var)
  /\ environment' = EmptyEnv
  /\ pc' = IF FileMode THEN "exists" ELSE "repl"
  /\ UNCHANGED <<world, stdin, pos, filename, watch_var, stage, stderr, exit_code, calls>>

\* the file the run finds: the one found before, or any, the first time
Finds(d) == IF disk.known THEN d = disk ELSE d \in Disks

\* FileNotFound with sys.exit(0)
FileNotFound_ExitZero ==
  /\ pc = "exists"
  /\ \E d \in Disks : Finds(d) /\ ~d.exists /\ disk' = d
  /\ calls' = Append(calls, "exists")
  /\ stdout' = Append(stdout, Emit("notfound",
                      "Error: File '" \o Text(filename) \o "' not found"))
  /\ exit_code' = 0
  /\ pc' = "done"
  /\ UNCHANGED <<argv, run, prev, call, stdin, pos, locals, environment, stage, stderr>>

\* lines 116-118, the path does not exist
FileNotFound ==
  /\ pc = "exists"
  /\ \E d \in Disks : Finds(d) /\ ~d.exists /\ disk' = d
  /\ calls' = Append(calls, "exists")
  /\ stdout' = Append(stdout, Emit("notfound",
                      "Error: File '" \o Text(filename) \o "' not found"))
  /\ exit_code' = 1
  /\ pc' = "done"
  /\ UNCHANGED <<argv, run, prev, call, stdin, pos, locals, environment, stage, stderr>>

\* line 116, the path exists
FileFound ==
  /\ pc = "exists"
  /\ \E d \in Disks : Finds(d) /\ d.exists /\ disk' = d
  /\ calls' = Append(calls, "exists")
  /\ pc' = "read"
  /\ UNCHANGED <<argv, run, prev, call, stdin, pos, locals, environment, stage, stdout,
                 stderr, exit_code>>

\* lines 121-122
FileRead ==
  /\ pc = "read"
  /\ source_code' = disk.content
  /\ calls' = Append(calls, "open")
  /\ pc' = "tokenize"
  /\ UNCHANGED <<world, stdin, pos, locals, environment, tokens, ast, final_value,
                 exit_status, stdout, stderr, exit_code>>

\* PipelineError with the file mode's handler in both modes
PipelineError_Fatal(msg, printed) ==
  /\ stdout' = stdout \o printed
  /\ stderr' = Append(stderr, Emit("error", "Error: " \o msg))
  /\ exit_code' = 1
  /\ pc' = "done"

\* PipelineError with the REPL's handler in both modes
PipelineError_Resume(msg, printed) ==
  /\ stdout' = stdout \o printed \o <<Emit("error", "Error: " \o msg)>>
  /\ pc' = "input"
  /\ UNCHANGED <<stderr, exit_code>>

\* the except clauses of the two modes (lines 132-134 and 177-178) for an
\* error with message msg raised after the print calls `printed`
PipelineError(msg, printed) ==
  IF FileMode
  THEN /\ stdout' = stdout \o printed
       /\ stderr' = Append(stderr, Emit("error", "Error: " \o msg))
       /\ exit_code' = 1
       /\ pc' = "done"
  ELSE /\ stdout' = stdout \o printed \o <<Emit("error", "Error: " \o msg)>>
       /\ pc' = "input"
       /\ UNCHANGED <<stderr, exit_code>>

\* lines 124 and 156
Tokenize ==
  /\ pc = "tokenize"
  /\ calls' = Append(calls, "tokenize")
  /\ LET r == tokenize(source_code)
     IN  IF r.ok
         THEN /\ tokens' = r.tokens
              /\ pc' = "parse"
              /\ UNCHANGED <<stdout, stderr, exit_code>>
         ELSE /\ PipelineError(r.msg, <<>>)
              /\ UNCHANGED tokens
  /\ UNCHANGED <<world, stdin, pos, locals, environment, source_code, ast, final_value,
                 exit_status>>

\* lines 125 and 157
Parse ==
  /\ pc = "parse"
  /\ calls' = Append(calls, "parse")
  /\ LET r == parse(tokens)
     IN  IF r.ok
         THEN /\ ast' = r.ast
              /\ pc' = "evaluate"
              /\ UNCHANGED <<stdout, stderr, exit_code>>
         ELSE /\ PipelineError(r.msg, <<>>)
              /\ UNCHANGED ast
  /\ UNCHANGED <<world, stdin, pos, locals, environment, source_code, tokens,
                 final_value, exit_status>>

\* the evaluator main() calls at lines 126 and 158: the imported evaluate
MainEvaluate(node, env) ==
  LET r == evaluate(node, env) IN [r EXCEPT !.out = ScriptPrints(r)]

\* lines 129 and 161; a Python bool is an int (True is 1)
ExitCode(value) ==
  IF value.t = "int" THEN value.i
  ELSE IF value.t = "bool" THEN (IF value.b THEN 1 ELSE 0)
  ELSE 0

\* ReplResult with the test of line 164 left out, so that line 169 is reached
ReplResult_PrintsNull(value) ==
  IF value.t = "bool"
  THEN <<Emit("result", IF value.b THEN "true" ELSE "false")>>
  ELSE IF value.t = "null" THEN <<Emit("result", "null")>>
  ELSE <<Emit("result", PyStr(value))>>

\* lines 164-171
ReplResult(value) ==
  IF value.t # "null"
  THEN IF value.t = "bool"
       THEN <<Emit("result", IF value.b THEN "true" ELSE "false")>>
       ELSE IF value.t = "null" THEN <<Emit("result", "null")>>
       ELSE <<Emit("result", PyStr(value))>>
  ELSE <<>>

\* lines 126-130 and 158-171
Evaluate ==
  /\ pc = "evaluate"
  /\ calls' = Append(calls, "evaluate")
  /\ LET r == MainEvaluate(ast, environment)
     IN  /\ environment' = r.env
         /\ IF ~r.ok
            THEN /\ PipelineError(r.msg, r.out)
                 /\ UNCHANGED <<final_value, exit_status>>
            ELSE /\ final_value' = r.value
                 /\ exit_status' = r.status
                 /\ stderr' = stderr
                 /\ IF r.status = "exit"
                    THEN /\ stdout' = stdout \o r.out
                         /\ exit_code' = ExitCode(r.value)
                         /\ pc' = "done"
                    ELSE IF FileMode
                    THEN /\ stdout' = stdout \o r.out
                         /\ exit_code' = 0
                         /\ pc' = "done"
                    ELSE /\ stdout' = stdout \o r.out \o ReplResult(r.value)
                         /\ exit_code' = exit_code
                         /\ pc' = "input"
  /\ UNCHANGED <<world, stdin, pos, locals, source_code, tokens, ast>>

(***************************************************************************)
(* REPL mode (runner.py lines 136-178).                                    *)
(***************************************************************************)
\* ReplHeader with the hint printed only when nothing is watched
ReplHeader_HintOrWatch(wv) ==
  <<Emit("repl", "Language Interpreter REPL")>>
  \o (IF Truthy(wv) THEN <<Emit("banner", "Watching: " \o Text(wv))>>
      ELSE <<Emit("repl", "Type 'exit' or 'quit' to exit\n")>>)

\* lines 138-141
ReplHeader(wv) ==
  <<Emit("repl", "Language Interpreter REPL")>>
  \o (IF Truthy(wv) THEN <<Emit("banner", "Watching: " \o Text(wv))>> ELSE <<>>)
  \o <<Emit("repl", "Type 'exit' or 'quit' to exit\n")>>

ReplBanner ==
  /\ pc = "repl"
  /\ stdout' = stdout \o ReplHeader(watch_var)
  /\ pc' = "input"
  /\ UNCHANGED <<world, stdin, pos, locals, environment, stage, stderr, exit_code, calls>>

\* the input stream has ended for this run
Closed == \E i \in 1..pos : stdin[i].k = "eof"

\* input('>> ') is delivered terminal event e: the next one of the events
\* delivered before, or a new one once those are used up
Delivered(e) ==
  /\ IF pos < Len(stdin)
     THEN e = stdin[pos + 1] /\ stdin' = stdin
     ELSE /\ stdin' = Append(stdin, e)
          /\ IF e.k = "eof"
             THEN Cardinality({i \in 1..Len(stdin) : stdin[i].k = "eof"}) < MaxEofReads
             ELSE ~Closed
                  /\ Cardinality({i \in 1..Len(stdin) : stdin[i].k # "eof"}) < MaxLines
  /\ pos' = pos + 1
  /\ calls' = Append(calls, "input")

Prompt == Emit("prompt", ">> ")

\* ExitCommands without 'quit'
ExitCommands_OnlyExit == {L_exit}

\* ['exit', 'quit'] of line 149
ExitCommands == {L_exit, <<"q", "u", "i", "t">>}

\* lines 146-153: a line is read
ReplReadLine ==
  /\ pc = "input"
  /\ \E e \in Events :
       /\ e.k = "line"
       /\ Delivered(e)
       /\ stdout' = Append(stdout, Prompt)
       /\ IF Strip(e.text) \in ExitCommands
          THEN /\ pc' = "done"
               /\ source_code' = e.text
          ELSE IF Strip(e.text) = <<>>
          THEN /\ pc' = "input"
               /\ source_code' = e.text
          ELSE /\ pc' = "tokenize"
               /\ source_code' = e.text
  /\ UNCHANGED <<world, locals, environment, tokens, ast, final_value, exit_status,
                 stderr, exit_code>>

\* line 146 at the end of the input: input() raises EOFError, an Exception,
\* which the handler of lines 177-178 prints
ReplEndOfInput ==
  /\ pc = "input"
  /\ Delivered([k |-> "eof"])
  /\ stdout' = stdout \o <<Prompt, Emit("error", "Error: EOF when reading a line")>>
  /\ pc' = "input"
  /\ UNCHANGED <<world, locals, environment, stage, stderr, exit_code>>

\* lines 173-175: KeyboardInterrupt while input() waits
ReplInterrupt ==
  /\ pc = "input"
  /\ Delivered([k |-> "int"])
  /\ stdout' = stdout \o <<Prompt, Emit("interrupt", "\n")>>
  /\ pc' = "input"
  /\ UNCHANGED <<world, locals, environment, stage, stderr, exit_code>>

Next ==
  \/ ParseArgs
  \/ InitWatch
  \/ FileNotFound
  \/ FileFound
  \/ FileRead
  \/ Tokenize
  \/ Parse
  \/ Evaluate
  \/ ReplBanner
  \/ ReplReadLine
  \/ ReplEndOfInput
  \/ ReplInterrupt

Spec == Init /\ [][Next]_vars

(***************************************************************************)
(* The same program run a second time with a watch argument added: the     *)
(* file is the one the first run found and the terminal delivers the same  *)
(* events.                                                                 *)
(***************************************************************************)
WatchArgs == {A_watch_x, A_watch_z}

Rerun ==
  /\ pc = "done"
  /\ run = 1
  /\ LET r == parse_command_line_args(argv) IN ~r.exit /\ r.watch_var = None
  /\ \E w \in WatchArgs : argv' = Append(argv, w)
  /\ run' = 2
  /\ prev' = [run |-> 1, stdout |-> stdout, stderr |-> stderr, exit_code |-> exit_code,
              environment |-> environment, calls |-> calls]
  /\ pos' = 0
  /\ pc' = "start"
  /\ filename' = None
  /\ watch_var' = None
  /\ watch_context' = WatchContext(None)
  /\ environment' = EmptyEnv
  /\ source_code' = <<>>
  /\ tokens' = <<>>
  /\ ast' = [tag |-> "none"]
  /\ final_value' = VNull
  /\ exit_status' = "normal"
  /\ stdout' = <<>>
  /\ stderr' = <<>>
  /\ exit_code' = 0
  /\ calls' = <<>>
  /\ UNCHANGED <<disk, stdin, call>>

NextTwice == Next \/ Rerun

SpecTwice == Init /\ [][NextTwice]_vars

(***************************************************************************)
(* KeyboardInterrupt outside input().  The try block of the REPL loop      *)
(* (lines 144-171) encloses tokenize, parse and evaluate as well, and the  *)
(* interrupt is raised wherever the process is when the signal arrives, so *)
(* the handler of lines 173-175 also runs for an interrupt that arrives    *)
(* while a stage is running.  An evaluate that is interrupted has run some *)
(* of the program's statements, and their effects on the environment       *)
(* (mutated in place) and on the output stay.                              *)
(***************************************************************************)
\* the outcomes of the statements evaluate can have completed, on node and
\* env, when it is interrupted
InterruptedEvaluate(node, env) ==
  LET stmts == IF node.tag = "program" THEN node.statements ELSE <<node>>
      Upto(k) == EvalStatements(SubSeq(stmts, 1, k), env)
  IN  {Upto(k) : k \in {j \in 0..Len(stmts) : Upto(j).ok /\ Upto(j).status = "normal"}}

\* lines 173-175: KeyboardInterrupt while a pipeline stage runs
StageInterrupt ==
  /\ ~FileMode
  /\ pc \in {"tokenize", "parse", "evaluate"}
  /\ ~Closed
  /\ Cardinality({i \in 1..Len(stdin) : stdin[i].k # "eof"}) < MaxLines
  /\ pos = Len(stdin)
  /\ stdin' = Append(stdin, [k |-> "int"])
  /\ pos' = pos + 1
  /\ calls' = Append(calls, pc)
  /\ \E r \in IF pc = "evaluate" THEN InterruptedEvaluate(ast, environment)
               ELSE {[env |-> environment, out |-> <<>>]} :
       /\ environment' = r.env
       /\ stdout' = stdout \o ScriptPrints(r) \o <<Emit("interrupt", "\n")>>
  /\ pc' = "input"
  /\ UNCHANGED <<world, locals, stage, stderr, exit_code>>

NextSignal == Next \/ StageInterrupt

SpecSignal == Init /\ [][NextSignal]_vars

(***************************************************************************)
(* Argument parsing on its own: parse_command_line_args over every         *)
(* argument list of at most MaxArgs tokens.                                *)
(***************************************************************************)
A_script2 == <<"t">>
A_dash == <<"-">>
A_flag_watch_x == <<"-", "w", "a", "t", "c", "h", "=", "x">>

ArgTokens ==
  {A_script, A_script2, A_watch_x, A_watch_empty, A_flag, A_dash, A_flag_watch_x}

InitArgs ==
  /\ argv \in UNION {[1..n -> ArgTokens] : n \in 0..MaxArgs}
  /\ disk = [known |-> FALSE]
  /\ stdin = <<>>
  /\ run = 1
  /\ prev = [run |-> 0]
  /\ call = NoCall
  /\ Fresh

SpecArgs == InitArgs /\ [][ParseArgs]_vars

(***************************************************************************)
(* The watch formatter on its own: _format_value applied to a value of the *)
(* dynamic value domain.                                                   *)
(***************************************************************************)
\* the variables of main() that the specifications of single operations
\* leave alone
Unused ==
  /\ argv = <<>>
  /\ disk = [known |-> FALSE]
  /\ stdin = <<>>
  /\ run = 1
  /\ prev = [run |-> 0]
  /\ call = NoCall
  /\ pos = 0
  /\ filename = None
  /\ watch_var = None
  /\ source_code = <<>>
  /\ tokens = <<>>
  /\ stderr = <<>>
  /\ exit_code = 0

\* sequences of at most MaxElems members of S
SeqsOf(S) == UNION {[1..n -> S] : n \in 0..MaxElems}

FormatKeys == {<<"k">>, <<"m">>, <<"k", "2">>}

\* mappings of at most MaxElems distinct keys to members of S
DictsOf(S) ==
  UNION {{[i \in 1..Len(ks) |-> <<ks[i], vs[i]>>] : vs \in [1..Len(ks) -> S]} :
           ks \in {q \in SeqsOf(FormatKeys) :
                     \A i, j \in 1..Len(q) : i # j => q[i] # q[j]}}

FormatAtoms ==
  {VNull, VBool(TRUE), VBool(FALSE), VInt(0), VInt(12), VInt(-3),
   VStr(<<>>), VStr(<<"a", "b">>)}

\* members of nested values: atoms, and sequences and mappings of atoms
FormatInner ==
  {VNull, VBool(TRUE), VInt(12), VStr(<<"a", "b">>),
   VList(<<>>), VList(<<VInt(0), VStr(<<"a">>)>>), VList(<<VList(<<VNull>>)>>),
   VDict(<<>>), VDict(<< <<<<"k">>, VBool(FALSE)>> >>)}

\* the values the formatter is given
FormatInputs ==
  FormatAtoms
  \cup {VList(e) : e \in SeqsOf(FormatAtoms) \cup SeqsOf(FormatInner)}
  \cup {VDict(d) : d \in DictsOf(FormatAtoms) \cup DictsOf(FormatInner)}

InitFormat ==
  /\ Unused
  /\ pc = "format"
  /\ watch_context = WatchContext(None)
  /\ environment = EmptyEnv
  /\ ast = [tag |-> "none"]
  /\ final_value \in FormatInputs
  /\ exit_status = "normal"
  /\ stdout = <<>>
  /\ calls = <<>>

\* self._format_value(new_value) at line 19
Format ==
  /\ pc = "format"
  /\ stdout' = <<Emit("watch", FormatValue(final_value))>>
  /\ pc' = "formatted"
  /\ UNCHANGED <<world, stdin, pos, locals, environment, source_code, tokens, ast,
                 final_value, exit_status, stderr, exit_code, calls>>

SpecFormat == InitFormat /\ [][Format]_vars

(***************************************************************************)
(* The watch layer on its own: calls of the evaluator wrapped by           *)
(* wrap_evaluate_for_watch and of WatchContext.record_change, made one     *)
(* after the other on one watch context and one environment.               *)
(***************************************************************************)
\* the first statement node of a source text
Node(text) == parse(tokenize(text).tokens).ast.statements[1]

N_assign_x5 == Node(S_five)
N_assign_x7 == Node(<<"x", "=", "7">>)
N_assign_xy == Node(<<"x", "=", "y">>)
N_assign_y == Node(<<"y", "=", "\"", "a", "\"">>)
N_assign_xdict == Node(<<"x", "=", "{", "}">>)
N_print == Node(<<"p", "r", "i", "n", "t", " ", "x">>)
N_exit == Node(<<"e", "x", "i", "t", " ", "3">>)
N_atom == Node(S_ref)
\* x["k"] = 5
N_assign_index ==
  [tag |-> "assign", target |-> [tag |-> "index", value |-> <<"x">>, key |-> <<"k">>],
   value |-> [tag |-> "number", num |-> 5]]
\* x = 7; y = "a" as a whole program
N_program ==
  parse(tokenize(<<"x", "=", "7", ";", "y", "=", "\"", "a", "\"">>).tokens).ast

\* the nodes the wrapped evaluator is called with
WatchNodes ==
  {N_assign_x5, N_assign_x7, N_assign_xy, N_assign_y, N_assign_xdict, N_print, N_exit,
   N_atom, N_assign_index, N_program}

WatchNames == {<<"x">>, <<"y">>}
WatchValues == {VNull, VBool(TRUE), VInt(5), VStr(<<"a", "b">>), VList(<<VInt(0)>>)}

InitWatchLayer ==
  /\ Unused
  /\ pc = "idle"
  /\ \E wv \in {None} \cup WatchNames : watch_context = WatchContext(wv)
  /\ environment = EmptyEnv
  /\ ast = [tag |-> "none"]
  /\ final_value = VNull
  /\ exit_status = "normal"
  /\ stdout = <<>>
  /\ calls = <<>>

\* wrap_evaluate_for_watch(original, watch_context)(node, environment), to
\* its return or to the error it raises
CallWrapped(original, node) ==
  /\ pc = "idle"
  /\ call.n < MaxCalls
  /\ LET w == WrappedEvaluate(original, watch_context, node, environment)
     IN  /\ ast' = node
         /\ environment' = w.ret.env
         /\ stdout' = stdout \o w.out
         /\ IF w.ret.ok
            THEN /\ final_value' = w.ret.value
                 /\ exit_status' = w.ret.status
                 /\ calls' = calls \o <<"wrapped_evaluate">> \o w.calls \o <<"return">>
            ELSE /\ calls' = calls \o <<"wrapped_evaluate">> \o w.calls \o <<"raise">>
                 /\ UNCHANGED <<final_value, exit_status>>
         /\ call' = [n |-> call.n + 1, op |-> "wrapped_evaluate", original |-> original,
                     raised |-> IF w.ret.ok THEN "" ELSE w.ret.msg,
                     var_name |-> None, new_value |-> VNull]
  /\ UNCHANGED <<argv, disk, run, prev, stdin, pos, pc, locals, source_code, tokens,
                 stderr, exit_code>>

\* watch_context.record_change(var_name, new_value)
CallRecordChange(var_name, new_value) ==
  /\ pc = "idle"
  /\ call.n < MaxCalls
  /\ stdout' = stdout \o RecordChange(watch_context, var_name, new_value)
  /\ calls' = calls \o <<"record_change", "return">>
  /\ call' = [n |-> call.n + 1, op |-> "record_change", original |-> "none",
              raised |-> "", var_name |-> var_name, new_value |-> new_value]
  /\ UNCHANGED <<argv, disk, run, prev, stdin, pos, pc, locals, environment, stage,
                 stderr, exit_code>>

NextWatchLayer ==
  \/ \E original \in Originals, node \in WatchNodes : CallWrapped(original, node)
  \/ \E var_name \in WatchNames, new_value \in WatchValues :
       CallRecordChange(var_name, new_value)

SpecWatchLayer == InitWatchLayer /\ [][NextWatchLayer]_vars

(***************************************************************************)
(* Properties.                                                             *)
(***************************************************************************)
\* the texts of a sequence of print calls
Texts(out) == [i \in 1..Len(out) |-> out[i].text]

IsWatch(e) == e.by = "watch"
IsError(e) == e.by = "error"

\* the watch reports among the print calls
WatchReports(out) == SelectSeq(out, IsWatch)

PipelineStages == {"tokenize", "parse", "evaluate"}

\* a pipeline stage has been invoked in this run
PipelineInvoked == \E i \in 1..Len(calls) : calls[i] \in PipelineStages

\* the stage main() is about to run fails
StageFailed ==
  \/ pc = "tokenize" /\ ~tokenize(source_code).ok
  \/ pc = "parse" /\ ~parse(tokens).ok
  \/ pc = "evaluate" /\ ~evaluate(ast, environment).ok

\* the message of that failure
StageMsg ==
  IF pc = "tokenize" THEN tokenize(source_code).msg
  ELSE IF pc = "parse" THEN parse(tokens).msg
  ELSE evaluate(ast, environment).msg

\* the reports the claim expects for the scripts  x = 5  and  x=1;x=2;x=3
C1_Expected(content) ==
  IF content = S_five
  THEN <<"\n[WATCH: x] New value: 5", "         Location: at module level">>
  ELSE <<"\n[WATCH: x] New value: 1", "         Location: at module level",
         "\n[WATCH: x] New value: 2", "         Location: at module level",
         "\n[WATCH: x] New value: 3", "         Location: at module level">>

\* C1: a file run with watch=x of a script of n assignments to x has printed,
\* when it ends, exactly the n reports of the assigned values, in program
\* order, each with the location "at module level".
C1_WatchReportsInOrder ==
  (/\ pc = "done"
   /\ FileMode
   /\ watch_var = <<"x">>
   /\ disk.known /\ disk.exists
   /\ disk.content \in {S_five, S_three})
  => Texts(WatchReports(stdout)) = C1_Expected(disk.content)

\* the second run is over and its watch target was assigned in neither run
C2_Rerun ==
  /\ run = 2
  /\ pc = "done"
  /\ Truthy(watch_var)
  /\ watch_var \notin DOMAIN environment
  /\ watch_var \notin DOMAIN prev.environment

\* C2 as stated: the run with a watch on a name that is never assigned writes
\* to standard output exactly what the run without a watch wrote.
C2_SameStandardOutput ==
  C2_Rerun => Texts(stdout) = Texts(prev.stdout)

\* C2, amended: the watched run's standard output is the unwatched run's
\* with the watch banner added and nothing else changed (the two [DEBUG]
\* lines first and, in REPL mode, "Watching: <name>" after the title); the
\* error stream and the exit code are the same.
C2_SameOutputButBanner ==
  C2_Rerun =>
    LET name == Text(watch_var)
        debug == <<Emit("banner", "[DEBUG] Watching variable: '" \o name \o "'"),
                   Emit("banner", "")>>
    IN  /\ stdout = IF FileMode THEN debug \o prev.stdout
                    ELSE debug \o <<Head(prev.stdout),
                                    Emit("banner", "Watching: " \o name)>>
                               \o Tail(prev.stdout)
        /\ stderr = prev.stderr
        /\ exit_code = prev.exit_code
        /\ calls = prev.calls

\* a REPL session with a result, run again with watch=z
C2_Witness ==
  /\ C2_Rerun
  /\ ~FileMode
  /\ watch_var = <<"z">>
  /\ \E i \in 1..Len(stdout) : stdout[i] = Emit("result", "5")
  /\ \E i \in 1..Len(stdout) : IsError(stdout[i])

\* C3: in REPL mode a failing tokenize, parse or evaluate does not end the
\* session: "Error: <message>" is printed on standard output, the exit code
\* and the error stream are untouched, the loop is back at the prompt, and
\* every variable bound before is still bound (with its value, when the
\* failure is in tokenize or parse).
C3_ReplErrorKeepsSession ==
  [][(~FileMode /\ pc \in PipelineStages /\ StageFailed) =>
       /\ pc' = "input"
       /\ Len(stdout') > Len(stdout)
       /\ stdout'[Len(stdout')] = Emit("error", "Error: " \o StageMsg)
       /\ stderr' = stderr
       /\ exit_code' = exit_code
       /\ DOMAIN environment \subseteq DOMAIN environment'
       /\ pc # "evaluate" => environment' = environment]_vars

\* x is bound, the next line fails, and a third line still reads x
C3_Witness ==
  /\ ~FileMode
  /\ pc = "input"
  /\ pos = 3
  /\ stdin = <<[k |-> "line", text |-> S_five], [k |-> "line", text |-> S_lexerr],
               [k |-> "line", text |-> S_ref]>>
  /\ \E i \in 1..Len(stdout) : IsError(stdout[i])
  /\ stdout[Len(stdout)] = Emit("result", "5")

\* C4: in file mode a failing tokenize, parse or evaluate ends the process:
\* "Error: <message>" goes to the error stream, the exit code is 1, and no
\* operation is invoked after the failing stage.
C4_FileErrorIsFatal ==
  [][/\ (FileMode /\ pc \in PipelineStages /\ StageFailed) =>
          /\ pc' = "done"
          /\ exit_code' = 1
          /\ stderr' = Append(stderr, Emit("error", "Error: " \o StageMsg))
          /\ calls' = Append(calls, pc)
     /\ (FileMode /\ stderr # <<>>) => calls' = calls]_vars

\* a script with a syntax error has stopped the run after parse
C4_Witness ==
  /\ FileMode
  /\ pc = "done"
  /\ exit_code = 1
  /\ stderr = <<Emit("error", "Error: syntax error")>>
  /\ calls = <<"exists", "open", "tokenize", "parse">>

\* C5: when the script path does not exist, the run ends with exit code 1,
\* its last print is "Error: File '<path>' not found", and no pipeline stage
\* was invoked, with or without a watch argument.
C5_MissingFile ==
  (pc = "done" /\ FileMode /\ disk.known /\ ~disk.exists) =>
    /\ exit_code = 1
    /\ stdout # <<>>
    /\ stdout[Len(stdout)].text = "Error: File 's' not found"
    /\ ~PipelineInvoked
    /\ calls = <<"exists">>

\* a missing script in a run with a watch argument
C5_Witness ==
  /\ pc = "done"
  /\ FileMode
  /\ disk.known /\ ~disk.exists
  /\ watch_var = <<"x">>
  /\ stdout[Len(stdout)].text = "Error: File 's' not found"

\* C6: whenever the argument list holds the token "watch=", the run goes
\* from argument parsing straight to its end: exit code 1, the configuration
\* error as its only output, and no file looked at, no prompt read and no
\* pipeline stage invoked.
C6_EmptyWatchName ==
  (\E i \in 1..Len(argv) : argv[i] = A_watch_empty) =>
    /\ pc \in {"start", "done"}
    /\ calls = <<>>
    /\ ~disk.known
    /\ pc = "done" =>
         /\ exit_code = 1
         /\ Texts(stdout) =
              <<"Error: watch argument requires a variable name (watch=variable_name)">>
         /\ stderr = <<>>

\* "watch=" after a script path and a valid watch argument
C6_Witness ==
  /\ argv = <<A_script, A_watch_x, A_watch_empty>>
  /\ pc = "done"
  /\ exit_code = 1

\* C7: when the evaluator returns the exit signal the process ends with the
\* final value as its code if that is an integer and with 0 for any other
\* final value, and the handler of the mode prints no "Error:" line for it.
C7_ExitSignalCode ==
  (pc = "done" /\ exit_status = "exit") =>
    /\ exit_code = IF final_value.t = "int" THEN final_value.i ELSE 0
    /\ stderr = <<>>
    /\ stdout # <<>> => ~IsError(stdout[Len(stdout)])

\* C8: once a REPL session has read the end of its input, the loop has
\* stopped.
C8_ReplStopsAtEndOfInput ==
  (~FileMode /\ Closed) => pc = "done"

Whitespace == {" ", "\t", "\n"}

\* text is empty or only whitespace
IsBlank(text) == \A i \in 1..Len(text) : text[i] \in Whitespace

\* text is word with whitespace around it
IsPadded(text, word) ==
  \E i \in 1..Len(text) :
    /\ i + Len(word) - 1 <= Len(text)
    /\ SubSeq(text, i, i + Len(word) - 1) = word
    /\ \A k \in 1..Len(text) : (k < i \/ k >= i + Len(word)) => text[k] \in Whitespace

\* this step is a read of a line at the prompt
ReadsLine == pc = "input" /\ pos' = pos + 1 /\ stdin'[pos'].k = "line"

\* C9: a REPL read of an empty or whitespace-only line invokes nothing but
\* the read, prints nothing but the prompt, leaves the environment and the
\* exit code alone and is followed by the next prompt.
C9_BlankLineIgnored ==
  [][(ReadsLine /\ IsBlank(stdin'[pos'].text)) =>
       /\ pc' = "input"
       /\ calls' = Append(calls, "input")
       /\ stdout' = Append(stdout, Prompt)
       /\ stderr' = stderr
       /\ environment' = environment
       /\ exit_code' = exit_code]_vars

\* three blank lines in a row, and the loop is at the prompt
C9_Witness ==
  /\ pc = "input"
  /\ pos = 3
  /\ \A i \in 1..3 : stdin[i].k = "line" /\ IsBlank(stdin[i].text)
  /\ stdin[2].text # <<>>
  /\ ~PipelineInvoked
  /\ \A i \in 1..Len(stdout) : ~IsError(stdout[i])

\* C10: a REPL read of "exit" or "quit", whitespace around it or not, ends
\* the run with exit code 0: nothing is invoked for the line, nothing but
\* the prompt is printed, and no input is read afterwards.
C10_ExitCommand ==
  [][/\ (ReadsLine /\ (\/ IsPadded(stdin'[pos'].text, <<"e", "x", "i", "t">>)
                        \/ IsPadded(stdin'[pos'].text, <<"q", "u", "i", "t">>))) =>
          /\ pc' = "done"
          /\ exit_code' = 0
          /\ calls' = Append(calls, "input")
          /\ stdout' = Append(stdout, Prompt)
          /\ stderr' = stderr
          /\ environment' = environment
     /\ pc = "done" => (pos' = pos /\ stdin' = stdin /\ calls' = calls)]_vars

\* " quit " typed after a statement was run
C10_Witness ==
  /\ ~FileMode
  /\ pc = "done"
  /\ pos = 2
  /\ stdin[2] = [k |-> "line", text |-> L_quit]
  /\ PipelineInvoked
  /\ exit_code = 0
  /\ calls[Len(calls)] = "input"

\* this step handles a KeyboardInterrupt in REPL mode
HandlesInterrupt == ~FileMode /\ pos' = pos + 1 /\ stdin'[pos'].k = "int"

\* C11: a REPL step that handles an interrupt returns to the prompt with the
\* environment that the iteration started with.  (Within an iteration only
\* evaluate changes the environment, and it ends the iteration, so before
\* the step the environment is still the one the iteration's read began
\* with.)
C11_InterruptKeepsEnvironment ==
  [][HandlesInterrupt => (pc' = "input" /\ environment' = environment)]_vars

RECURSIVE C12_Join(_, _)
\* the strings of ss with sep between them
C12_Join(ss, sep) ==
  IF ss = <<>> THEN ""
  ELSE IF Len(ss) = 1 THEN ss[1]
  ELSE ss[1] \o sep \o C12_Join(Tail(ss), sep)

RECURSIVE C12_Canonical(_)
\* the canonical string of a value, as the claim gives it
C12_Canonical(v) ==
  CASE v.t = "null" -> "null"
    [] v.t = "bool" -> IF v.b THEN "true" ELSE "false"
    [] v.t = "int" -> IntStr(v.i)
    [] v.t = "str" -> "\"" \o Text(v.s) \o "\""
    [] v.t = "list" ->
         "[" \o C12_Join([i \in 1..Len(v.elems) |-> C12_Canonical(v.elems[i])], ", ")
             \o "]"
    [] v.t = "dict" ->
         "{" \o C12_Join([i \in 1..Len(v.pairs) |->
                            "\"" \o Text(v.pairs[i][1]) \o "\": "
                                 \o C12_Canonical(v.pairs[i][2])], ", ")
             \o "}"

\* C12: for every value, nested or not, the watch formatter returns the
\* canonical string: quoted strings, true/false, null, the number's digits,
\* [v1, v2] and {"k1": v1, "k2": v2} in insertion order, members formatted
\* by the same rules.
C12_CanonicalFormat ==
  pc = "formatted" =>
    /\ stdout = <<Emit("watch", C12_Canonical(final_value))>>
    /\ final_value = VInt(-3) => stdout[1].text = "-3"
    /\ final_value = VInt(12) => stdout[1].text = "12"
    /\ final_value = VBool(TRUE) => stdout[1].text = "true"
    /\ final_value = VStr(<<>>) => stdout[1].text = "\"\""
    /\ final_value = VList(<<VBool(FALSE), VNull>>) => stdout[1].text = "[false, null]"

\* a mapping of a sequence and a boolean, formatted
C12_Witness ==
  /\ pc = "formatted"
  /\ final_value = VDict(<< <<<<"k">>, VList(<<VInt(0), VStr(<<"a">>)>>)>>,
                            <<<<"m">>, VBool(TRUE)>> >>)
  /\ stdout[1].text = "{\"k\": [0, \"a\"], \"m\": true}"

\* a token beginning with '-'
C13_IsFlag(arg) == StartsWith(arg, <<"-">>)

\* the argument list with all tokens beginning with '-' removed
C13_RemoveFlags(args) == SelectSeq(args, LAMBDA a : ~C13_IsFlag(a))

\* C13: argument parsing gives the same outcome (script path, watch target,
\* or the exit for an empty watch name) as for the list with the tokens
\* beginning with '-' removed, and no such token is taken as the script path
\* or as the watch argument.
C13_FlagsIgnored ==
  pc \in {"init", "done"} =>
    LET r == parse_command_line_args(C13_RemoveFlags(argv))
    IN  /\ r.exit <=> pc = "done"
        /\ pc = "init" =>
             /\ filename = r.filename
             /\ watch_var = r.watch_var
             /\ filename # None =>
                  \E i \in 1..Len(argv) : ~C13_IsFlag(argv[i]) /\ argv[i] = filename
             /\ watch_var # None =>
                  \E i \in 1..Len(argv) :
                    /\ ~C13_IsFlag(argv[i])
                    /\ argv[i] = WatchPrefix \o watch_var

\* a flag, a flag that spells a watch argument, and a script path, parsed
C13_Witness ==
  /\ pc = "init"
  /\ argv = <<A_flag_watch_x, A_script, A_flag>>
  /\ filename = A_script
  /\ watch_var = None

\* this step is a call of the wrapped evaluator
WrappedCall == call'.n = call.n + 1 /\ call'.op = "wrapped_evaluate"

\* this step is a call of the wrapped evaluator, watching enabled, on an
\* assignment whose target is an identifier
InstrumentedCall ==
  /\ WrappedCall
  /\ watch_context.watch_enabled
  /\ ast'.tag = "assign"
  /\ ast'.target.tag = "identifier"

\* what the real evaluator does when called as this step's call calls it
Delegated == original_evaluate(call'.original, ast', environment)

\* the operations this step invoked
Invoked == SubSeq(calls', Len(calls) + 1, Len(calls'))

\* the report block for a name and a value at module level
ReportBlock(name, value) ==
  <<Emit("watch", "\n[WATCH: " \o Text(name) \o "] New value: " \o FormatValue(value)),
    Emit("watch", "         Location: at module level")>>

\* C14: a call of the wrapped evaluator, watching enabled, on an assignment
\* to the watch target invokes the real evaluator exactly once, returns its
\* (result, signal) unchanged, and when the environment then holds the name
\* emits one report of the value it holds, after the invocation and before
\* returning, at the end of what has been printed so far.
C14_ReportAfterEvaluation ==
  [][(InstrumentedCall /\ ast'.target.value = watch_context.watch_var) =>
       LET r == Delegated
           name == ast'.target.value
       IN  /\ Cardinality({i \in 1..Len(Invoked) : Invoked[i] = "original_evaluate"}) = 1
           /\ environment' = r.env
           /\ r.ok => /\ final_value' = r.value
                      /\ exit_status' = r.status
                      /\ call'.raised = ""
           /\ (r.ok /\ name \in DOMAIN r.env) =>
                /\ Invoked = <<"wrapped_evaluate", "original_evaluate", "record_change",
                               "return">>
                /\ stdout' = stdout \o ScriptPrints(r)
                                    \o ReportBlock(name, environment'[name])]_vars

\* x = 5 then x = 7 through the wrapped evaluator with x watched: two reports
C14_Witness ==
  /\ watch_context = WatchContext(<<"x">>)
  /\ ast = N_assign_x7
  /\ calls = <<"wrapped_evaluate", "original_evaluate", "record_change", "return",
               "wrapped_evaluate", "original_evaluate", "record_change", "return">>
  /\ final_value = VInt(7)
  /\ Texts(stdout) = <<"\n[WATCH: x] New value: 5", "         Location: at module level",
                       "\n[WATCH: x] New value: 7", "         Location: at module level">>

\* C15: the wrapped evaluator raises exactly the error the real evaluator
\* raises and none of its own; a watched assignment on which the real
\* evaluator fails, or after which the name is not in the environment, emits
\* no report.
C15_ErrorsPropagate ==
  [][WrappedCall =>
       LET r == Delegated
       IN  /\ call'.raised = (IF r.ok THEN "" ELSE r.msg)
           /\ ~r.ok => /\ Invoked[Len(Invoked)] = "raise"
                       /\ UNCHANGED <<final_value, exit_status>>
           /\ (InstrumentedCall /\ (~r.ok \/ ast'.target.value \notin DOMAIN r.env)) =>
                /\ stdout' = stdout \o ScriptPrints(r)
                /\ \A i \in 1..Len(Invoked) : Invoked[i] # "record_change"
                /\ environment' = r.env]_vars

\* x = y with x watched and y unbound: the evaluator's error, and no report
C15_Witness ==
  /\ watch_context = WatchContext(<<"x">>)
  /\ call.op = "wrapped_evaluate"
  /\ call.original = "evaluate"
  /\ ast = N_assign_xy
  /\ call.raised = "undefined variable 'y'"
  /\ calls = <<"wrapped_evaluate", "original_evaluate", "raise">>
  /\ stdout = <<>>

\* C16: with watching disabled, or on a node that is not an assignment to an
\* identifier, the wrapped evaluator invokes the real evaluator once,
\* returns what it returns or raises what it raises, leaves the environment
\* it leaves and prints only what it prints.
C16_DelegatesUnchanged ==
  [][(WrappedCall /\ ~InstrumentedCall) =>
       LET r == Delegated
       IN  /\ Invoked = <<"wrapped_evaluate", "original_evaluate",
                          IF r.ok THEN "return" ELSE "raise">>
           /\ environment' = r.env
           /\ stdout' = stdout \o ScriptPrints(r)
           /\ call'.raised = (IF r.ok THEN "" ELSE r.msg)
           /\ IF r.ok THEN final_value' = r.value /\ exit_status' = r.status
              ELSE UNCHANGED <<final_value, exit_status>>]_vars

\* x = {} then x["k"] = 5 with x watched: the second call changes x and
\* reports nothing
C16_Witness ==
  /\ watch_context = WatchContext(<<"x">>)
  /\ call.op = "wrapped_evaluate"
  /\ ast = N_assign_index
  /\ <<"x">> \in DOMAIN environment
  /\ environment[<<"x">>] = VDict(<< <<<<"k">>, VInt(5)>> >>)
  /\ Texts(stdout) = <<"\n[WATCH: x] New value: {}", "         Location: at module level">>

\* C17: a call of record_change prints one report block when watching is
\* enabled and the name is the watch target, and nothing otherwise; no step
\* prints a report while watching is disabled or for a name other than the
\* watch target, and no step changes the watch context.
C17_ReportOnlyForTarget ==
  [][/\ watch_context' = watch_context
     /\ call'.op = "record_change" =>
          stdout' = stdout \o (IF /\ watch_context.watch_enabled
                                  /\ call'.var_name = watch_context.watch_var
                               THEN ReportBlock(call'.var_name, call'.new_value)
                               ELSE <<>>)
     /\ WatchReports(stdout') # WatchReports(stdout) =>
          /\ watch_context.watch_enabled
          /\ Len(WatchReports(stdout')) = Len(WatchReports(stdout)) + 2
          /\ \/ call'.op = "record_change" /\ call'.var_name = watch_context.watch_var
             \/ InstrumentedCall /\ ast'.target.value = watch_context.watch_var]_vars

\* record_change for y and then for x with x watched: the one report is x's
C17_Witness ==
  /\ watch_context = WatchContext(<<"x">>)
  /\ calls = <<"record_change", "return", "record_change", "return">>
  /\ call.var_name = <<"x">>
  /\ call.new_value = VStr(<<"a", "b">>)
  /\ Texts(stdout) = <<"\n[WATCH: x] New value: \"ab\"",
                       "         Location: at module level">>

\* C18: the watch context's call stack is empty in every state, and the
\* reports printed are blocks of two lines, the second of which is the
\* location "at module level": no "in function" location and no call stack
\* depth line.
C18_CallStackEmpty ==
  /\ watch_context.stack_trace = <<>>
  /\ LET w == Texts(WatchReports(stdout))
     IN  /\ Len(w) % 2 = 0
         /\ \A i \in 1..Len(w) :
              (i % 2 = 0) <=> (w[i] = "         Location: at module level")

\* y = "a" through the wrapped evaluator with y watched, reported
C18_Witness ==
  /\ watch_context = WatchContext(<<"y">>)
  /\ ast = N_assign_y
  /\ call.n = 1
  /\ Texts(stdout) = <<"\n[WATCH: y] New value: \"a\"",
                       "         Location: at module level">>

IsResult(e) == e.by = "result"

\* the result lines among the print calls
ResultLines(out) == Texts(SelectSeq(out, IsResult))

\* C19: a REPL iteration whose evaluation returns with a normal signal prints
\* one result line when the final value is not null, 'true' or 'false' for a
\* boolean and the host's rendering of any other value, and none when it is
\* null; no result line is ever 'null'.
C19_ReplPrintsResult ==
  [][(~FileMode /\ pc = "evaluate" /\ pc' = "input" /\ pos' = pos) =>
       LET r == evaluate(ast, environment)
           v == r.value
           printed == SubSeq(stdout', Len(stdout) + 1, Len(stdout'))
       IN  (r.ok /\ r.status = "normal") =>
             /\ final_value' = v
             /\ ResultLines(printed) =
                  (CASE v.t = "null" -> <<>>
                     [] v.t = "bool" -> <<IF v.b THEN "true" ELSE "false">>
                     [] OTHER -> <<PyStr(v)>>)
             /\ v.t # "null" => IsResult(printed[Len(printed)])
             /\ v = VInt(5) => ResultLines(printed) = <<"5">>
             /\ v = VList(<<>>) => ResultLines(printed) = <<"[]">>
             /\ v = VStr(<<"a">>) => ResultLines(printed) = <<"a">>
             /\ \A i \in 1..Len(stdout') :
                  IsResult(stdout'[i]) => stdout'[i].text # "null"]_vars

\* the lines '[]', 'null' and 'true' have been evaluated: two result lines
C19_Witness ==
  /\ ~FileMode
  /\ pc = "input"
  /\ pos = 3
  /\ stdin = <<[k |-> "line", text |-> S_list], [k |-> "line", text |-> S_null],
               [k |-> "line", text |-> S_true]>>
  /\ ResultLines(stdout) = <<"[]", "true">>

=============================================================================
